---- MODULE Spec2Model ----
(***************************************************************************)
(* The live stream worker pool of ring-mqtt (lib/stream-workers.js).       *)
(*                                                                         *)
(* StreamWorkers.init() creates numWorkers worker threads, each with an    *)
(* empty sessions object, and installs three handlers on the main thread:  *)
(* the 'message' handler of every worker, and the listeners of the         *)
(* 'start_livestream' and 'stop_livestream' events.  Each handler runs to  *)
(* completion on the single main thread, so one action models one whole    *)
(* handler invocation.  utils.event.emit() calls its listeners             *)
(* synchronously: a listener of `livestream_<deviceId>` that itself emits  *)
(* start_livestream / stop_livestream runs that handler nested inside the  *)
(* emitting handler, before the statements that follow the emit.           *)
(*                                                                         *)
(* Spec, SpecSync, SpecInit and SpecFill take the reports of the workers   *)
(* as arbitrary inputs.  SpecRouting does the same and records where each  *)
(* 'start' command went and which worker each report came from.  SpecLive  *)
(* adds the message ports and the worker threads (lib/livecall.js, after   *)
(* the Worker Unit contract) so that reports are the answers to commands.  *)
(***************************************************************************)
EXTENDS Integers, Sequences, FiniteSets, TLC

\* ---------------------------------------------------------------- bounds
NumKeys == 2            \* device ids 1..NumKeys
MaxCores == 3           \* Spec, SpecSync: utils.getCpuCores() returns 1..MaxCores
MaxInitCores == 16      \* SpecInit: utils.getCpuCores() returns 1..MaxInitCores
StartsCap == 2          \* the counter of dispatched starts saturates here
MaxChan == 2            \* SpecLive: commands in flight to one worker
NumFillKeys == 4        \* SpecFill: device ids 1..NumFillKeys

\* ------------------------------------------------------- program constants
MaxWorkers == 4         \* cpuCores > 4 ? 4 : ...

\* streamData.sessionId before an 'active' report sets it
NoSessionId == "undefined"

Keys == 1..NumKeys
Cores == 1..MaxCores
InitCores == 1..MaxInitCores
FillKeys == 1..NumFillKeys
SessionIds == {"s1"}             \* the session ids a worker may report
StartPayloads == {"p1"}          \* the contents of a start request's streamData
StopPayloads == {"p1", "p2"}     \* the contents of a stop request's streamData
States == {"active", "inactive", "failed", "other"}

VARIABLES
    streamWorkers,  \* this.streamWorkers: index -> [sessions: deviceId -> {streamData}]
    out,            \* what the last handler invocation emitted and posted, in order
    last,           \* the last handler invocation and its inputs
    starts,         \* per key: 'start' commands posted since the last terminal report
    life,           \* per key: its progress along Lifecycle, or that it failed
    route,          \* per key: the worker that was posted the latest 'start' for it
    net,            \* the message ports and the worker threads behind them
    watch           \* what a run records: "lifecycle" (starts, life), "routing"
                    \* (route, and in last the worker a report came from) or
                    \* "network" (net)

vars == <<streamWorkers, out, last, starts, life, route, net, watch>>

\* ------------------------------------------------------------ JS helpers
MinOf(S) == CHOOSE x \in S : \A y \in S : x <= y

RangeOf(f) == {f[i] : i \in DOMAIN f}

\* obj[k] = v
Put(obj, k, v) == [x \in (DOMAIN obj) \cup {k} |-> IF x = k THEN v ELSE obj[x]]

\* a delete that removes nothing
Delete_nothing(obj, k) == obj

\* delete obj[k]
Delete(obj, k) == [x \in (DOMAIN obj) \ {k} |-> obj[x]]

\* Object.keys(obj).length
KeysLength(obj) == Cardinality(DOMAIN obj)

\* Math.round(cpuCores/1.5) = floor(2c/3 + 1/2) = floor((4c + 3)/6)
RoundCores(c) == (4 * c + 3) \div 6

\* Math.min(4, Math.round(cpuCores/1.5))
numWorkers_min(c) == IF RoundCores(c) > MaxWorkers THEN MaxWorkers ELSE RoundCores(c)

\* Math.floor in place of Math.round
numWorkers_floor(c) == IF c > MaxWorkers THEN MaxWorkers ELSE (2 * c) \div 3

\* const numWorkers = cpuCores > 4 ? 4 : Math.round(cpuCores/1.5)
numWorkers(c) == IF c > MaxWorkers THEN MaxWorkers ELSE RoundCores(c)

\* the streamData object of a start_livestream / stop_livestream request
Request(deviceId, tag) ==
    [deviceId |-> deviceId, tag |-> tag, sessionId |-> NoSessionId]

\* an entry of `out`: an event emitted on livestream_<deviceId> ...
Event(deviceId, state) ==
    [kind |-> "emit", deviceId |-> deviceId, what |-> state, worker |-> -1,
     streamData |-> Request(deviceId, "")]

\* ... or a message posted to streamWorkers[workerId].liveCall
Post(workerId, command, streamData) ==
    [kind |-> "post", deviceId |-> streamData.deviceId, what |-> command,
     worker |-> workerId, streamData |-> streamData]

\* a lookup that stops after the first worker
getWorkerId_firstWorkerOnly(sw, deviceId) ==
    IF 0 \in DOMAIN sw /\ deviceId \in DOMAIN sw[0].sessions THEN 0 ELSE -1

\* getWorkerId(deviceId): findIndex over the workers, -1 when none has the key
getWorkerId(sw, deviceId) ==
    LET hits == {i \in DOMAIN sw : deviceId \in DOMAIN sw[i].sessions}
    IN  IF hits = {} THEN -1 ELSE MinOf(hits)

\* this.streamWorkers.map(worker => Object.keys(worker.sessions).length)
workerSessions(sw) == [i \in DOMAIN sw |-> KeysLength(sw[i].sessions)]

\* Math.max in place of Math.min
fewestSessions_max(ws) == CHOOSE x \in RangeOf(ws) : \A y \in RangeOf(ws) : y <= x

\* Math.min(...workerSessions)
fewestSessions(ws) == MinOf(RangeOf(ws))

\* lastIndexOf in place of indexOf
indexOf_last(ws, v) ==
    LET hits == {i \in DOMAIN ws : ws[i] = v}
    IN  IF hits = {} THEN -1 ELSE CHOOSE i \in hits : \A j \in hits : j <= i

\* workerSessions.indexOf(fewestSessions): the first index holding the value
indexOf(ws, v) ==
    LET hits == {i \in DOMAIN ws : ws[i] = v}
    IN  IF hits = {} THEN -1 ELSE MinOf(hits)

\* ---------------------------------------------------------------- handlers
\* Each handler maps the registry to [sw |-> the registry after, out |-> outputs].

\* a start handler that never looks the key up
StartHandler_noLookup(sw, streamData) ==
    LET ws == workerSessions(sw)
        workerId == indexOf(ws, fewestSessions(ws))
    IN  [sw  |-> [sw EXCEPT ![workerId].sessions =
                     Put(@, streamData.deviceId, [streamData |-> streamData])],
         out |-> <<Post(workerId, "start", streamData)>>]

\* utils.event.on('start_livestream', (streamData) => ...)
StartHandler(sw, streamData) ==
    IF getWorkerId(sw, streamData.deviceId) < 0
    THEN LET ws == workerSessions(sw)
             workerId == indexOf(ws, fewestSessions(ws))
         IN  [sw  |-> [sw EXCEPT ![workerId].sessions =
                          Put(@, streamData.deviceId, [streamData |-> streamData])],
              out |-> <<Post(workerId, "start", streamData)>>]
    ELSE [sw |-> sw, out |-> <<>>]

NoReaction == [op |-> "none", tag |-> ""]

\* what a listener of livestream_<deviceId> may do, synchronously, on an event
Reactions ==
    {NoReaction} \cup {[op |-> "start", tag |-> p] : p \in StartPayloads}
                 \cup {[op |-> "stop", tag |-> p] : p \in StopPayloads}

RECURSIVE StopHandler(_, _, _)

\* utils.event.emit(`livestream_${deviceId}`, state): the listeners run inside
\* the call; `react` is what the listener does before emit returns.
Emit(sw, deviceId, state, react) ==
    LET ev == <<Event(deviceId, state)>>
    IN  CASE react.op = "start" ->
               LET r == StartHandler(sw, Request(deviceId, react.tag))
               IN  [sw |-> r.sw, out |-> ev \o r.out]
          [] react.op = "stop" ->
               LET r == StopHandler(sw, Request(deviceId, react.tag), NoReaction)
               IN  [sw |-> r.sw, out |-> ev \o r.out]
          [] OTHER -> [sw |-> sw, out |-> ev]

\* a stop handler that stays silent when it finds no session
StopHandler_silent(sw, streamData, react) ==
    LET workerId == getWorkerId(sw, streamData.deviceId)
    IN  IF workerId >= 0
        THEN [sw  |-> sw,
              out |-> <<Post(workerId, "stop",
                             sw[workerId].sessions[streamData.deviceId].streamData)>>]
        ELSE [sw |-> sw, out |-> <<>>]

\* a stop handler that forwards the streamData of the stop request
StopHandler_requestPayload(sw, streamData, react) ==
    LET workerId == getWorkerId(sw, streamData.deviceId)
    IN  IF workerId >= 0
        THEN [sw |-> sw, out |-> <<Post(workerId, "stop", streamData)>>]
        ELSE Emit(sw, streamData.deviceId, "inactive", react)

\* a stop handler that posts every stop to the first worker
StopHandler_toFirstWorker(sw, streamData, react) ==
    LET workerId == getWorkerId(sw, streamData.deviceId)
    IN  IF workerId >= 0
        THEN [sw  |-> sw,
              out |-> <<Post(0, "stop",
                             sw[workerId].sessions[streamData.deviceId].streamData)>>]
        ELSE Emit(sw, streamData.deviceId, "inactive", react)

\* a stop handler that forwards no command to the worker
StopHandler_postsNothing(sw, streamData, react) ==
    LET workerId == getWorkerId(sw, streamData.deviceId)
    IN  IF workerId >= 0
        THEN [sw |-> sw, out |-> <<>>]
        ELSE Emit(sw, streamData.deviceId, "inactive", react)

\* utils.event.on('stop_livestream', (streamData) => ...)
StopHandler(sw, streamData, react) ==
    LET workerId == getWorkerId(sw, streamData.deviceId)
    IN  IF workerId >= 0
        THEN [sw  |-> sw,
              out |-> <<Post(workerId, "stop",
                             sw[workerId].sessions[streamData.deviceId].streamData)>>]
        ELSE Emit(sw, streamData.deviceId, "inactive", react)

\* the message of a worker: { state, liveCallData: { deviceId, sessionId } }
Message(deviceId, state, sessionId) ==
    [state |-> state, liveCallData |-> [deviceId |-> deviceId, sessionId |-> sessionId]]

\* a message handler that leaves the session id out of the record
MessageHandler_dropsSessionId(sw, data, react) ==
    LET deviceId == data.liveCallData.deviceId
        workerId == getWorkerId(sw, deviceId)
    IN  IF workerId >= 0
        THEN CASE data.state = "active" -> Emit(sw, deviceId, "active", react)
               [] data.state \in {"inactive", "failed"} ->
                    LET e == Emit(sw, deviceId, data.state, react)
                    IN  [sw  |-> [e.sw EXCEPT ![workerId].sessions = Delete(@, deviceId)],
                         out |-> e.out]
               [] OTHER -> [sw |-> sw, out |-> <<>>]
        ELSE [sw |-> sw, out |-> <<>>]

\* a message handler that relays a report whether or not the key is registered
MessageHandler_noLookup(sw, data, react) ==
    LET deviceId == data.liveCallData.deviceId
        workerId == getWorkerId(sw, deviceId)
    IN  CASE data.state = "active" /\ workerId >= 0 ->
               LET e == Emit(sw, deviceId, "active", react)
               IN  [sw  |-> [e.sw EXCEPT
                               ![workerId].sessions[deviceId].streamData.sessionId =
                                   data.liveCallData.sessionId],
                    out |-> e.out]
          [] data.state \in {"inactive", "failed"} /\ workerId >= 0 ->
               LET e == Emit(sw, deviceId, data.state, react)
               IN  [sw  |-> [e.sw EXCEPT ![workerId].sessions = Delete(@, deviceId)],
                    out |-> e.out]
          [] data.state \in {"active", "inactive", "failed"} ->
               Emit(sw, deviceId, data.state, react)
          [] OTHER -> [sw |-> sw, out |-> <<>>]

\* a message handler that relays a 'failed' report as 'inactive'
MessageHandler_failedAsInactive(sw, data, react) ==
    LET deviceId == data.liveCallData.deviceId
        workerId == getWorkerId(sw, deviceId)
    IN  IF workerId >= 0
        THEN CASE data.state = "active" ->
                    LET e == Emit(sw, deviceId, "active", react)
                    IN  [sw  |-> [e.sw EXCEPT
                                    ![workerId].sessions[deviceId].streamData.sessionId =
                                        data.liveCallData.sessionId],
                         out |-> e.out]
               [] data.state \in {"inactive", "failed"} ->
                    LET e == Emit(sw, deviceId, "inactive", react)
                    IN  [sw  |-> [e.sw EXCEPT ![workerId].sessions = Delete(@, deviceId)],
                         out |-> e.out]
               [] OTHER -> [sw |-> sw, out |-> <<>>]
        ELSE [sw |-> sw, out |-> <<>>]

\* this.streamWorkers[i].liveCall.on('message', (data) => ...)
MessageHandler(sw, data, react) ==
    LET deviceId == data.liveCallData.deviceId
        workerId == getWorkerId(sw, deviceId)
    IN  IF workerId >= 0
        THEN CASE data.state = "active" ->
                    LET e == Emit(sw, deviceId, "active", react)
                    IN  [sw  |-> [e.sw EXCEPT
                                    ![workerId].sessions[deviceId].streamData.sessionId =
                                        data.liveCallData.sessionId],
                         out |-> e.out]
               [] data.state \in {"inactive", "failed"} ->
                    LET e == Emit(sw, deviceId, data.state, react)
                    IN  [sw  |-> [e.sw EXCEPT ![workerId].sessions = Delete(@, deviceId)],
                         out |-> e.out]
               [] OTHER -> [sw |-> sw, out |-> <<>>]
        ELSE [sw |-> sw, out |-> <<>>]

\* ------------------------------------------------------------ fatal paths
\* Whether a handler, run on registry sw, reads a property of undefined: a
\* streamWorkers[workerId] that does not exist, or a sessions[deviceId] that
\* does not exist where its streamData is read.

\* line 80: this.streamWorkers[workerId].sessions[...] = ...; of an empty array
\* Math.min() is Infinity and indexOf gives -1
StartThrows(sw, streamData) ==
    /\ getWorkerId(sw, streamData.deviceId) < 0
    /\ \/ DOMAIN sw = {}
       \/ indexOf(workerSessions(sw), fewestSessions(workerSessions(sw))) \notin DOMAIN sw

RECURSIVE StopThrows(_, _, _)

\* the listeners run inside emit
EmitThrows(sw, deviceId, react) ==
    CASE react.op = "start" -> StartThrows(sw, Request(deviceId, react.tag))
      [] react.op = "stop" -> StopThrows(sw, Request(deviceId, react.tag), NoReaction)
      [] OTHER -> FALSE

\* line 89: this.streamWorkers[workerId].sessions[streamData.deviceId].streamData
StopThrows(sw, streamData, react) ==
    LET workerId == getWorkerId(sw, streamData.deviceId)
    IN  IF workerId >= 0
        THEN \/ workerId \notin DOMAIN sw
             \/ streamData.deviceId \notin DOMAIN sw[workerId].sessions
        ELSE EmitThrows(sw, streamData.deviceId, react)

\* line 56: ...sessions[deviceId].streamData.sessionId = ..., after the emit of
\* line 55; lines 60 and 64: delete this.streamWorkers[workerId].sessions[deviceId]
MessageThrows(sw, data, react) ==
    LET deviceId == data.liveCallData.deviceId
        workerId == getWorkerId(sw, deviceId)
    IN  IF workerId >= 0
        THEN CASE data.state = "active" ->
                    \/ EmitThrows(sw, deviceId, react)
                    \/ LET e == Emit(sw, deviceId, "active", react)
                       IN  \/ workerId \notin DOMAIN e.sw
                           \/ deviceId \notin DOMAIN e.sw[workerId].sessions
               [] data.state \in {"inactive", "failed"} ->
                    \/ EmitThrows(sw, deviceId, react)
                    \/ workerId \notin DOMAIN Emit(sw, deviceId, data.state, react).sw
               [] OTHER -> FALSE
        ELSE FALSE

\* ---------------------------------------------------------------- observers
Terminal(l) == l.op = "message" /\ l.state \in {"inactive", "failed"}

StartsPosted(o, k) ==
    Cardinality({i \in DOMAIN o : o[i].kind = "post" /\ o[i].what = "start"
                                  /\ o[i].deviceId = k})

CapAt(n) == IF n > StartsCap THEN StartsCap ELSE n

\* 'start' commands posted for k since the last terminal report about k
NextStarts(l, o) ==
    [k \in Keys |->
        CapAt((IF Terminal(l) /\ l.deviceId = k THEN 0 ELSE starts[k]) + StartsPosted(o, k))]

\* the states emitted on livestream_<k> in o, in order
EventsFor(o, k) ==
    LET F[n \in 0..Len(o)] ==
            IF n = 0 THEN <<>>
            ELSE IF o[n].kind = "emit" /\ o[n].deviceId = k
                 THEN Append(F[n - 1], o[n].what)
                 ELSE F[n - 1]
    IN  F[Len(o)]

Lifecycle == <<"start", "active", "stop", "inactive">>

OffPath == [steps |-> <<>>, events |-> <<>>, sessionId |-> NoSessionId]

Failed == [steps |-> <<"failed">>, events |-> <<>>, sessionId |-> NoSessionId]

\* the step of its key's life that handler invocation l is
StepOf(l) ==
    CASE l.op = "start" /\ l.workerId < 0 -> "start"
      [] l.op = "start" -> "duplicate start"
      [] l.op = "stop" -> "stop"
      [] l.op = "message" /\ l.workerId >= 0 -> l.state
      [] OTHER -> "stale report"

\* life[k].steps is a prefix of Lifecycle while the invocations about k since its
\* last accepted start were exactly those, <<"failed">> from a 'failed' report
\* about the registered k until k's next accepted start, and <<>> otherwise.
NextLife(l, o) ==
    [k \in Keys |->
        LET step == StepOf(l)
            cur == life[k]
        IN  IF l.deviceId # k THEN cur
            ELSE IF StartsPosted(o, k) > 0
                 THEN IF step = "start"
                      THEN [steps |-> <<"start">>, events |-> EventsFor(o, k),
                            sessionId |-> NoSessionId]
                      ELSE OffPath
            ELSE IF step = "failed" THEN Failed
            ELSE IF cur = Failed THEN cur
            ELSE IF /\ l.react.op = "none"
                    /\ cur.steps # <<>>
                    /\ Len(cur.steps) < Len(Lifecycle)
                    /\ step = Lifecycle[Len(cur.steps) + 1]
                 THEN [steps |-> Append(cur.steps, step),
                       events |-> cur.events \o EventsFor(o, k),
                       sessionId |-> IF step = "active" THEN l.sessionId
                                     ELSE cur.sessionId]
            ELSE OffPath]

\* the worker each key's latest 'start' command was posted to, -1 before the first
NextRoute(o) ==
    [k \in Keys |->
        LET posts == {i \in DOMAIN o : o[i].kind = "post" /\ o[i].what = "start"
                                        /\ o[i].deviceId = k}
        IN  IF posts = {} THEN route[k]
            ELSE o[CHOOSE i \in posts : \A j \in posts : j <= i].worker]

\* ------------------------------------------------------------- message ports
\* net.cmd[w]: the commands posted to worker w that it has not yet received;
\* net.rep[w]: the reports worker w posted that the main thread has not yet
\* handled; net.sess[w][k]: the state of the live call of k inside worker w;
\* net.asked[k]: whether a stop was forwarded for the session of k, and whether
\* a terminal event answered it.
NewNet(n) ==
    [cmd   |-> [w \in 0..(n - 1) |-> <<>>],
     rep   |-> [w \in 0..(n - 1) |-> <<>>],
     sess  |-> [w \in 0..(n - 1) |-> [k \in Keys |-> "idle"]],
     asked |-> [k \in Keys |-> "no"]]

\* the { command, streamData } message, as far as a worker acts on it
Command(e) == [command |-> e.what, deviceId |-> e.deviceId]

RECURSIVE CommandsTo(_, _)
\* the commands the entries of o post to worker w, in order
CommandsTo(o, w) ==
    IF o = <<>> THEN <<>>
    ELSE (IF Head(o).kind = "post" /\ Head(o).worker = w
          THEN <<Command(Head(o))>> ELSE <<>>) \o CommandsTo(Tail(o), w)

StopsPosted(o, k) ==
    Cardinality({i \in DOMAIN o : o[i].kind = "post" /\ o[i].what = "stop"
                                  /\ o[i].deviceId = k})

TerminalEvents(o, k) ==
    {i \in DOMAIN o : o[i].kind = "emit" /\ o[i].deviceId = k
                      /\ o[i].what \in {"inactive", "failed"}}

\* postMessage appends to the port of the worker; n is the net before
Sent(n, o) ==
    [n EXCEPT
        !.cmd = [w \in DOMAIN n.cmd |-> n.cmd[w] \o CommandsTo(o, w)],
        !.asked = [k \in Keys |->
                     IF StartsPosted(o, k) > 0 THEN "no"
                     ELSE IF StopsPosted(o, k) > 0 THEN "asked"
                     ELSE IF TerminalEvents(o, k) # {} /\ n.asked[k] = "asked"
                          THEN "confirmed"
                     ELSE n.asked[k]]]

\* ------------------------------------------------------------------ actions
\* a handler invocation and its inputs; workerId is what getWorkerId returned
Call(op, deviceId, tag, state, sessionId, react, cores) ==
    [op |-> op, deviceId |-> deviceId, tag |-> tag,
     workerId |-> getWorkerId(streamWorkers, deviceId),
     state |-> state, sessionId |-> sessionId, react |-> react, cpuCores |-> cores,
     from |-> -1]

\* constructor(): this.streamWorkers = []
Init ==
    /\ streamWorkers = <<>>
    /\ out = <<>>
    /\ last = Call("new", 0, "", "", NoSessionId, NoReaction, 0)
    /\ starts = [k \in Keys |-> 0]
    /\ life = [k \in Keys |-> OffPath]
    /\ route = [k \in Keys |-> -1]
    /\ net = NewNet(0)
    /\ watch = "lifecycle"

\* constructor(), in a run that records routing
InitRouting ==
    /\ streamWorkers = <<>>
    /\ out = <<>>
    /\ last = Call("new", 0, "", "", NoSessionId, NoReaction, 0)
    /\ starts = [k \in Keys |-> 0]
    /\ life = [k \in Keys |-> OffPath]
    /\ route = [k \in Keys |-> -1]
    /\ net = NewNet(0)
    /\ watch = "routing"

\* constructor(), in a run that follows the messages through the ports
InitLive ==
    /\ streamWorkers = <<>>
    /\ out = <<>>
    /\ last = Call("new", 0, "", "", NoSessionId, NoReaction, 0)
    /\ starts = [k \in Keys |-> 0]
    /\ life = [k \in Keys |-> OffPath]
    /\ route = [k \in Keys |-> -1]
    /\ net = NewNet(0)
    /\ watch = "network"

\* init(): the workers, each with sessions: {}
InitPool(cores) ==
    /\ last.op = "new"
    /\ streamWorkers' = [i \in 0..(numWorkers(cores) - 1) |-> [sessions |-> <<>>]]
    /\ last' = Call("init", 0, "", "", NoSessionId, NoReaction, cores)
    /\ net' = IF watch = "network" THEN NewNet(numWorkers(cores)) ELSE net
    /\ UNCHANGED <<out, starts, life, route, watch>>

\* the effect of a handler invocation l with result r on all but net
Apply(r, l) ==
    /\ last.op # "new"
    /\ streamWorkers' = r.sw
    /\ out' = r.out
    /\ last' = l
    /\ starts' = IF watch = "lifecycle" THEN NextStarts(l, r.out) ELSE starts
    /\ life' = IF watch = "lifecycle" THEN NextLife(l, r.out) ELSE life
    /\ route' = IF watch = "routing" THEN NextRoute(r.out) ELSE route
    /\ UNCHANGED watch

Finish(r, l) ==
    /\ Apply(r, l)
    /\ net' = IF watch = "network" THEN Sent(net, r.out) ELSE net

\* utils.event.emit('start_livestream', streamData)
Start(k, p) ==
    LET r == StartHandler(streamWorkers, Request(k, p))
        l == Call("start", k, p, "", NoSessionId, NoReaction, 0)
    IN  Finish(r, l)

\* utils.event.emit('stop_livestream', streamData)
Stop(k, p, react) ==
    /\ getWorkerId(streamWorkers, k) >= 0 => react = NoReaction
    /\ LET r == StopHandler(streamWorkers, Request(k, p), react)
           l == Call("stop", k, p, "", NoSessionId, react, 0)
       IN  Finish(r, l)

\* worker w posts { state, liveCallData } to the main thread
WorkerMessage(w, k, state, sid, react) ==
    /\ state # "active" => sid = NoSessionId
    /\ (getWorkerId(streamWorkers, k) < 0 \/ state = "other") => react = NoReaction
    /\ LET r == MessageHandler(streamWorkers, Message(k, state, sid), react)
           l == [Call("message", k, "", state, sid, react, 0) EXCEPT
                    !.from = IF watch = "routing" THEN w ELSE -1]
       IN  Finish(r, l)

\* handlers whose listeners only record the event
Next ==
    \/ \E cores \in Cores : InitPool(cores)
    \/ \E k \in Keys, p \in StartPayloads : Start(k, p)
    \/ \E k \in Keys, p \in StopPayloads : Stop(k, p, NoReaction)
    \/ \E w \in DOMAIN streamWorkers, k \in Keys, state \in States,
          sid \in SessionIds \cup {NoSessionId} :
            WorkerMessage(w, k, state, sid, NoReaction)

Spec == Init /\ [][Next]_vars

\* handlers whose listeners may request a start or a stop inside the emit
NextSync ==
    \/ \E cores \in Cores : InitPool(cores)
    \/ \E k \in Keys, p \in StartPayloads : Start(k, p)
    \/ \E k \in Keys, p \in StopPayloads, react \in Reactions : Stop(k, p, react)
    \/ \E w \in DOMAIN streamWorkers, k \in Keys, state \in States,
          sid \in SessionIds \cup {NoSessionId}, react \in Reactions :
            WorkerMessage(w, k, state, sid, react)

SpecSync == Init /\ [][NextSync]_vars

\* the pool of every core count, serving one device
NextInit ==
    \/ \E cores \in InitCores : InitPool(cores)
    \/ \E p \in StartPayloads : Start(1, p)
    \/ \E p \in StopPayloads : Stop(1, p, NoReaction)
    \/ \E w \in DOMAIN streamWorkers, state \in States,
          sid \in SessionIds \cup {NoSessionId} :
            WorkerMessage(w, 1, state, sid, NoReaction)

SpecInit == Init /\ [][NextInit]_vars

\* the pool of every core count, filled by start requests only
NextFill ==
    \/ \E cores \in InitCores : InitPool(cores)
    \/ \E k \in FillKeys, p \in StartPayloads : Start(k, p)

SpecFill == Init /\ [][NextFill]_vars

\* the handlers of Next, in runs that record routes and the senders of reports
SpecRouting == InitRouting /\ [][Next]_vars

\* ------------------------------------------------- the pool with its workers
\* the main thread handles the oldest report of worker w
Deliver(w) ==
    /\ w \in DOMAIN net.rep /\ net.rep[w] # <<>>
    /\ LET data == Head(net.rep[w])
           k == data.liveCallData.deviceId
           r == MessageHandler(streamWorkers, data, NoReaction)
           l == Call("message", k, "", data.state, data.liveCallData.sessionId,
                     NoReaction, 0)
       IN  /\ Apply(r, l)
           /\ net' = [Sent(net, r.out) EXCEPT !.rep[w] = Tail(@)]

WorkerStep == UNCHANGED <<streamWorkers, out, last, starts, life, route, watch>>

\* worker w receives its oldest command.  'start' begins the live call of the
\* key; 'stop' ends it and reports 'inactive', once, if the call has not
\* ended already.
WorkerReceive(w) ==
    /\ w \in DOMAIN net.cmd /\ net.cmd[w] # <<>>
    /\ LET c == Head(net.cmd[w])
           k == c.deviceId
       IN  net' =
             IF c.command = "start"
             THEN [net EXCEPT !.cmd[w] = Tail(@), !.sess[w][k] = "starting"]
             ELSE IF net.sess[w][k] = "idle"
                  THEN [net EXCEPT !.cmd[w] = Tail(@)]
                  ELSE [net EXCEPT !.cmd[w] = Tail(@), !.sess[w][k] = "idle",
                                   !.rep[w] = Append(@, Message(k, "inactive", NoSessionId))]
    /\ WorkerStep

\* the live call of k in worker w is established: it reports 'active'
WorkerActivate(w, k, sid) ==
    /\ w \in DOMAIN net.sess /\ net.sess[w][k] = "starting"
    /\ net' = [net EXCEPT !.sess[w][k] = "active",
                          !.rep[w] = Append(@, Message(k, "active", sid))]
    /\ WorkerStep

\* the live call of k in worker w ends by itself: it reports one terminal state
WorkerEnd(w, k, state) ==
    /\ w \in DOMAIN net.sess /\ net.sess[w][k] \in {"starting", "active"}
    /\ net' = [net EXCEPT !.sess[w][k] = "idle",
                          !.rep[w] = Append(@, Message(k, state, NoSessionId))]
    /\ WorkerStep

\* every port has room for what a request may post
Room == \A w \in DOMAIN net.cmd : Len(net.cmd[w]) < MaxChan

NextLive ==
    \/ \E cores \in Cores : InitPool(cores)
    \/ \E k \in Keys, p \in StartPayloads : Room /\ Start(k, p)
    \/ \E k \in Keys, p \in StartPayloads : Room /\ Stop(k, p, NoReaction)
    \/ \E w \in DOMAIN streamWorkers : Deliver(w)
    \/ \E w \in DOMAIN streamWorkers : WorkerReceive(w)
    \/ \E w \in DOMAIN streamWorkers, k \in Keys, sid \in SessionIds :
          WorkerActivate(w, k, sid)
    \/ \E w \in DOMAIN streamWorkers, k \in Keys, state \in {"inactive", "failed"} :
          WorkerEnd(w, k, state)

\* the indexes a worker of the pool may have
PoolIndexes == 0..(numWorkers(MaxCores) - 1)

\* every message posted to a port is eventually received at its other end
SpecLive ==
    /\ InitLive /\ [][NextLive]_vars
    /\ \A w \in PoolIndexes : WF_vars(WorkerReceive(w)) /\ WF_vars(Deliver(w))

\* ------------------------------------------------------------------ claims
\* the workers whose sessions hold deviceId k
Holders(sw, k) == {i \in DOMAIN sw : k \in DOMAIN sw[i].sessions}

Registered(k) == Holders(streamWorkers, k) # {}

\* the last handler invocation was `op` about key k
Did(l, op, k) == l.op = op /\ l.deviceId = k

\* C1: in every reachable state a deviceId is in the sessions of at most one worker.
OneWorkerPerKey ==
    \A k \in Keys : Cardinality(Holders(streamWorkers, k)) <= 1

\* C1 witness: both workers hold a session and the last request was a start for a
\* key that was already registered on worker 1.
OneWorkerPerKeyWitness ==
    \E k \in Keys :
        /\ Did(last, "start", k) /\ last.workerId = 1
        /\ Holders(streamWorkers, k) = {1}
        /\ \E j \in Keys : Holders(streamWorkers, j) = {0}

\* C2: an accepted start for an unregistered key inserts the session into the worker
\* with the fewest sessions at that moment, the lowest index among those, and posts
\* the 'start' command with the request's streamData to that worker and no other.
LeastLoadPlacement ==
    [][\A k \in Keys :
        (Did(last', "start", k) /\ ~Registered(k)) =>
            \E w \in DOMAIN streamWorkers :
                /\ \A v \in DOMAIN streamWorkers :
                    /\ KeysLength(streamWorkers[w].sessions)
                           <= KeysLength(streamWorkers[v].sessions)
                    /\ KeysLength(streamWorkers[v].sessions)
                           = KeysLength(streamWorkers[w].sessions) => w <= v
                /\ Holders(streamWorkers', k) = {w}
                /\ streamWorkers'[w].sessions[k] =
                       [streamData |-> Request(k, last'.tag)]
                /\ out' = <<Post(w, "start", Request(k, last'.tag))>>]_vars

\* C2 witness: a start was placed on worker 0 while worker 1 holds a session, which
\* needs a terminal report to have freed worker 0 before.
LeastLoadPlacementWitness ==
    \E k \in Keys :
        /\ Did(last, "start", k) /\ last.workerId < 0
        /\ Holders(streamWorkers, k) = {0}
        /\ KeysLength(streamWorkers[0].sessions) = 1
        /\ 1 \in DOMAIN streamWorkers
        /\ KeysLength(streamWorkers[1].sessions) = 1

\* C3: a start for a registered key changes no registry and posts nothing; a
\* registered key has exactly one entry and exactly one 'start' posted since the
\* last terminal report about it, and no key ever has more than one.
IdempotentStart ==
    /\ [](\A k \in Keys :
            /\ starts[k] <= 1
            /\ Registered(k) =>
                 starts[k] = 1 /\ Cardinality(Holders(streamWorkers, k)) = 1)
    /\ [][\A k \in Keys :
            (Did(last', "start", k) /\ Registered(k)) =>
                streamWorkers' = streamWorkers /\ out' = <<>>]_vars

\* C3 witness: a start for a key whose session is registered and already active
\* (its record holds a session id) was ignored.
IdempotentStartWitness ==
    \E k \in Keys :
        /\ Did(last, "start", k) /\ last.workerId >= 0
        /\ out = <<>>
        /\ starts[k] = 1
        /\ streamWorkers[last.workerId].sessions[k].streamData.sessionId \in SessionIds

\* C4: a stop for a key in no registry emits exactly one 'inactive' event for the
\* key, posts nothing and leaves every registry as it was.
IdempotentStop ==
    [][\A k \in Keys :
        (Did(last', "stop", k) /\ ~Registered(k)) =>
            /\ out' = <<Event(k, "inactive")>>
            /\ streamWorkers' = streamWorkers]_vars

\* C4 witness: a stop for an unregistered key while another key is registered.
IdempotentStopWitness ==
    \E k \in Keys :
        /\ Did(last, "stop", k) /\ last.workerId < 0
        /\ out = <<Event(k, "inactive")>>
        /\ \E j \in Keys : Registered(j)

\* C5: a stop for a key registered on worker w posts exactly one 'stop' command to
\* w, carrying the streamData stored in the session record, emits nothing and
\* leaves every registry as it was.
StopForwardsStoredPayload ==
    [][\A k \in Keys : \A w \in Holders(streamWorkers, k) :
        Did(last', "stop", k) =>
            /\ out' = <<Post(w, "stop", streamWorkers[w].sessions[k].streamData)>>
            /\ streamWorkers' = streamWorkers]_vars

\* C5 witness: a stop forwarded to worker 1 whose streamData differs from the stop
\* request's in content and in carrying a session id.
StopForwardsStoredPayloadWitness ==
    \E k \in Keys :
        /\ Did(last, "stop", k) /\ last.workerId = 1
        /\ Len(out) = 1 /\ out[1].what = "stop" /\ out[1].worker = 1
        /\ out[1].streamData.tag # last.tag
        /\ out[1].streamData.sessionId \in SessionIds
        /\ k \in DOMAIN streamWorkers[1].sessions

\* C6: after start accepted, 'active' report, stop, 'inactive' report about a key,
\* with no other request or report about it in between, the events emitted for
\* the key are 'active' then 'inactive' and the key is in no registry; from the
\* 'active' report until the removal the record holds the reported session id.
LifecycleRoundTrip ==
    \A k \in Keys :
        /\ life[k].steps = Lifecycle =>
              life[k].events = <<"active", "inactive">> /\ ~Registered(k)
        /\ life[k].steps \in {<<"start", "active">>, <<"start", "active", "stop">>} =>
              /\ life[k].events = <<"active">>
              /\ \E w \in DOMAIN streamWorkers :
                  /\ Holders(streamWorkers, k) = {w}
                  /\ streamWorkers[w].sessions[k].streamData.sessionId
                         = life[k].sessionId

\* C6 witness: a key completed the round trip, with a session id reported, while
\* the other key holds a session.
LifecycleRoundTripWitness ==
    \E k \in Keys :
        /\ life[k].steps = Lifecycle /\ life[k].sessionId \in SessionIds
        /\ Did(last, "message", k) /\ last.state = "inactive"
        /\ \E j \in Keys : Registered(j)

\* C7: a 'failed' report about a registered key emits exactly one 'failed' event
\* for it and removes it from every registry; until the next start for the key it
\* stays in no registry, and a stop for it emits 'inactive' and posts nothing.
FailureScenario ==
    /\ [](\A k \in Keys : life[k] = Failed => ~Registered(k))
    /\ [][\A k \in Keys :
            /\ (Did(last', "message", k) /\ last'.state = "failed" /\ Registered(k)) =>
                  /\ out' = <<Event(k, "failed")>>
                  /\ Holders(streamWorkers', k) = {}
                  /\ life'[k] = Failed
            /\ (Did(last', "stop", k) /\ life[k] = Failed) =>
                  /\ out' = <<Event(k, "inactive")>>
                  /\ streamWorkers' = streamWorkers]_vars

\* C7 witness: a stop for a key whose session failed, answered with the
\* synthesized 'inactive', while the other key is registered.
FailureScenarioWitness ==
    \E k \in Keys :
        /\ Did(last, "stop", k) /\ life[k] = Failed
        /\ out = <<Event(k, "inactive")>>
        /\ \E j \in Keys : Registered(j)

\* C8: a report (active, inactive or failed) about a key in no registry emits
\* nothing, posts nothing and changes no registry.
StaleReportDropped ==
    [][\A k \in Keys :
        (Did(last', "message", k) /\ ~Registered(k)) =>
            out' = <<>> /\ streamWorkers' = streamWorkers]_vars

\* C8 witness: a 'failed' report about an unregistered key was dropped while the
\* other key is registered.
StaleReportDroppedWitness ==
    \E k \in Keys :
        /\ Did(last, "message", k) /\ last.workerId < 0 /\ last.state = "failed"
        /\ out = <<>>
        /\ \E j \in Keys : Registered(j)

Abs(x) == IF x < 0 THEN -x ELSE x

\* the integer nearest to c/1.5 = 2c/3 (2c/3 is never halfway between two integers)
Nearest(c) ==
    CHOOSE n \in 0..c : \A m \in 0..c : Abs(3 * n - 2 * c) <= Abs(3 * m - 2 * c)

\* C9 as stated: init creates min(4, round(cores/1.5)) workers, at least 1.
WorkersAreMinOfFourAndRound ==
    last.op = "init" =>
        /\ Cardinality(DOMAIN streamWorkers) =
               (IF Nearest(last.cpuCores) < 4 THEN Nearest(last.cpuCores) ELSE 4)
        /\ Cardinality(DOMAIN streamWorkers) >= 1

\* C9 as amended: init creates 4 workers when it detects more than 4 cores and
\* round(cores/1.5) workers otherwise, each with no session; never fewer than 1.
WorkersAreFourAboveFourCores ==
    last.op = "init" =>
        /\ DOMAIN streamWorkers = 0..(Cardinality(DOMAIN streamWorkers) - 1)
        /\ Cardinality(DOMAIN streamWorkers) =
               (IF last.cpuCores > 4 THEN 4 ELSE Nearest(last.cpuCores))
        /\ Cardinality(DOMAIN streamWorkers) >= 1
        /\ \A i \in DOMAIN streamWorkers : streamWorkers[i].sessions = <<>>

\* C9 witness: init on 5 cores created 4 workers, where round(5/1.5) is 3.
WorkersAreFourAboveFourCoresWitness ==
    /\ last.op = "init" /\ last.cpuCores = 5
    /\ Nearest(5) = 3
    /\ Cardinality(DOMAIN streamWorkers) = 4

\* C10 as stated: when a listener answers the 'active' event about a registered
\* key with a stop request, the record already holds the reported session id, so
\* the 'stop' command posted inside the emit carries it.
StopFromActiveListenerCarriesId ==
    \A k \in Keys :
        (/\ Did(last, "message", k) /\ last.state = "active"
         /\ last.workerId >= 0 /\ last.react.op = "stop") =>
            /\ Len(out) = 2
            /\ out[1] = Event(k, "active")
            /\ out[2].kind = "post" /\ out[2].what = "stop"
            /\ out[2].streamData.sessionId = last.sessionId

\* the entries of o that are events emitted on livestream_<k>
Emitted(o, k) == {i \in DOMAIN o : o[i].kind = "emit" /\ o[i].deviceId = k}

\* C11: a report 'active', 'inactive' or 'failed' about a registered key emits
\* exactly one event for the key, carrying the reported state, and nothing else;
\* every event emitted is either that relay or the 'inactive' of a stop for an
\* unregistered key; a 'start' command is posted only by a start request, never
\* by a report.
StatusRelayVerbatim ==
    [][\A k \in Keys :
        /\ (/\ Did(last', "message", k) /\ Registered(k)
            /\ last'.state \in {"active", "inactive", "failed"}) =>
                out' = <<Event(k, last'.state)>>
        /\ \A i \in Emitted(out', k) :
              \/ Did(last', "message", k) /\ Registered(k) /\ out'[i].what = last'.state
              \/ Did(last', "stop", k) /\ ~Registered(k) /\ out'[i].what = "inactive"
        /\ StartsPosted(out', k) > 0 => Did(last', "start", k)]_vars

\* C11 witness: a 'failed' report about a registered key was relayed as one
\* 'failed' event, the key left the registry and no 'start' was posted again,
\* while the other key stays registered.
StatusRelayVerbatimWitness ==
    \E k \in Keys :
        /\ Did(last, "message", k) /\ last.state = "failed" /\ last.workerId >= 0
        /\ out = <<Event(k, "failed")>>
        /\ ~Registered(k) /\ StartsPosted(out, k) = 0
        /\ \E j \in Keys : Registered(j)

\* C12: a registered key leaves the registry only in a step that processes an
\* 'inactive' or 'failed' report about it sent by the worker that holds it, so
\* it stays registered while that worker reports no terminal state.
RemovedOnlyByOwnersTerminalReport ==
    [][\A k \in Keys :
        (Registered(k) /\ Holders(streamWorkers', k) = {}) =>
            /\ Did(last', "message", k) /\ last'.state \in {"inactive", "failed"}
            /\ last'.from \in Holders(streamWorkers, k)]_vars

\* C13: with every posted message eventually received and workers that report
\* one terminal state per live call, every stop request for a key is eventually
\* followed by a handler invocation that emits a terminal event ('inactive' or
\* 'failed') for the key and leaves it in no registry; for an unregistered key
\* that is the stop handler's own invocation.
EventualStopConfirmation ==
    /\ \A k \in Keys :
          Did(last, "stop", k) ~> (TerminalEvents(out, k) # {} /\ ~Registered(k))
    /\ [][\A k \in Keys :
            (Did(last', "stop", k) /\ ~Registered(k)) =>
                TerminalEvents(out', k) # {} /\ Holders(streamWorkers', k) = {}]_vars

\* C13 witness: the terminal report that answers a forwarded stop was handled
\* and removed the key, while a command for the other key is still in flight.
EventualStopConfirmationWitness ==
    \E k \in Keys :
        /\ Did(last, "message", k) /\ last.workerId >= 0
        /\ net.asked[k] = "confirmed"
        /\ TerminalEvents(out, k) # {} /\ ~Registered(k)
        /\ \E w \in DOMAIN net.cmd : net.cmd[w] # <<>>

\* C14: in every state reached after init(), no start request, stop request or
\* worker report (of any state, an unknown one included, and whatever the
\* listeners of its events do inside the emit) makes its handler read a worker
\* entry or a session record that does not exist.
NoFatalPath ==
    last.op # "new" =>
        \A k \in Keys :
            /\ \A p \in StartPayloads : ~StartThrows(streamWorkers, Request(k, p))
            /\ \A p \in StopPayloads, react \in Reactions :
                  ~StopThrows(streamWorkers, Request(k, p), react)
            /\ \A state \in States, sid \in SessionIds \cup {NoSessionId},
                  react \in Reactions :
                  ~MessageThrows(streamWorkers, Message(k, state, sid), react)

\* C14 witness: a report with an unknown state about a registered key was handled:
\* nothing was emitted or posted and the key is still registered.
NoFatalPathWitness ==
    \E k \in Keys :
        /\ Did(last, "message", k) /\ last.state = "other" /\ last.workerId >= 0
        /\ out = <<>>
        /\ Holders(streamWorkers, k) = {last.workerId}

\* C15: a report changes the registry of no worker but the one that sent it; a
\* report about a key registered on another worker than the sender emits nothing
\* and posts nothing.
ReportChangesOnlySendersRegistry ==
    [][\A k \in Keys :
        Did(last', "message", k) =>
            /\ \A i \in DOMAIN streamWorkers :
                  i # last'.from => streamWorkers'[i] = streamWorkers[i]
            /\ (Registered(k) /\ last'.from \notin Holders(streamWorkers, k)) =>
                  out' = <<>>]_vars

\* the entries of o that post a 'stop' command for key k
StopPosts(o, k) ==
    {i \in DOMAIN o : o[i].kind = "post" /\ o[i].what = "stop" /\ o[i].deviceId = k}

\* C16: every 'stop' command for a key is posted to the worker that an earlier
\* handler invocation posted the latest 'start' command for the key to (so it
\* follows that 'start' on the worker's port, and no worker is posted a 'stop'
\* for a key it was never posted a 'start' for); a registered key is held by
\* that worker.
StopFollowsLatestStart ==
    /\ [](\A k \in Keys : Registered(k) => Holders(streamWorkers, k) = {route[k]})
    /\ [][\A k \in Keys : \A i \in StopPosts(out', k) :
            /\ route[k] \in DOMAIN streamWorkers
            /\ out'[i].worker = route[k]
            /\ route'[k] = route[k]]_vars

\* C16 witness: a stop for a key was posted to worker 1, which was posted the
\* key's latest start, while the other key's latest start went to worker 0.
StopFollowsLatestStartWitness ==
    \E k \in Keys :
        /\ Did(last, "stop", k)
        /\ StopPosts(out, k) # {} /\ out[1].worker = 1 /\ route[k] = 1
        /\ \E j \in Keys : route[j] = 0

\* C17: while the pool has handled nothing but start requests since init(), the
\* numbers of sessions of any two workers differ by at most 1 and no worker
\* holds more sessions than a worker of lower index.
BalancedFill ==
    \A i, j \in DOMAIN streamWorkers :
        /\ KeysLength(streamWorkers[i].sessions)
              - KeysLength(streamWorkers[j].sessions) <= 1
        /\ i < j => KeysLength(streamWorkers[i].sessions)
                       >= KeysLength(streamWorkers[j].sessions)

\* C17 witness: three workers hold 2, 1 and 1 sessions and the last request was
\* a start for a key that was already registered.
BalancedFillWitness ==
    /\ DOMAIN streamWorkers = 0..2
    /\ workerSessions(streamWorkers) = [i \in 0..2 |-> IF i = 0 THEN 2 ELSE 1]
    /\ last.op = "start" /\ last.workerId >= 0

====
